---- MODULE Spec2Model ----
(***************************************************************************)
(* Model of the SupportOps agent: the session orchestrator of             *)
(* ctx_cli_couchdb_agent.py (run, _build_servers, _connect_servers) and    *)
(* the CouchDB tool gateway of couchdb_mcp_server.py.                      *)
(***************************************************************************)
EXTENDS Naturals, Sequences, FiniteSets

VARIABLES
    env,          \* environment: variable name -> "unset" | "empty" | "set"
    json_only,    \* the --json flag handed to run
    pc,           \* position of run: build, connect, rollback, agent, running, closing, print, done
    servers,      \* the list _build_servers returned
    connections,  \* _connect_servers' connections list
    stack,        \* exit callbacks of the AsyncExitStack, in push order
    openCalls,    \* servers whose __aenter__ was awaited, in call order
    opened,       \* servers whose __aenter__ returned, in order
    closeCalls,   \* servers whose __aexit__ was awaited, in call order
    exc,          \* the exception in flight when the exit stack is closed
    closeErr,     \* the exception stack.aclose() will raise when it ends
    closeFailed,  \* servers whose __aexit__ raised
    raised,       \* the exception that left run
    runner,       \* Runner.run: idle, started, ok, error, maxturns, cancelled
    turn,         \* turns the agent runtime has taken
    final_output, \* result.final_output: "unset" | "none" | "text"
    printed,      \* the lines run printed
    ret,          \* how run ended: "running" | "returned" | "raised"
    phase,        \* tool server: "idle" (waiting for a call) | "replied"
    call,         \* the tool call being served: tool name and arguments
    request,      \* the HTTP request the tool issued
    toolResult    \* how the tool function ended

orchVars == <<env, json_only, pc, servers, connections, stack, openCalls, opened,
              closeCalls, exc, closeErr, closeFailed, raised, runner, turn,
              final_output, printed, ret>>

gwVars == <<phase, call, request, toolResult>>

vars == <<orchVars, gwVars>>

----------------------------------------------------------------------------
(* Session orchestrator: ctx_cli_couchdb_agent.py *)

STRIPE_VARS == <<"STRIPE_API_KEY">>

ZENDESK_VARS == <<"ZENDESK_SUBDOMAIN", "ZENDESK_EMAIL", "ZENDESK_API_TOKEN">>

EnvVars == {"STRIPE_API_KEY", "ZENDESK_SUBDOMAIN", "ZENDESK_EMAIL", "ZENDESK_API_TOKEN"}

\* max_turns=8 of the Runner.run call
MaxTurns == 8

NoExc == [kind |-> "none", about |-> "none"]

Exc(k, a) == [kind |-> k, about |-> a]

\* the provider an environment variable's description names
ProviderOf(var) == IF var = "STRIPE_API_KEY" THEN "stripe" ELSE "zendesk"

\* _require_env: os.getenv(var.name) is truthy (set and not empty)
RequireEnvEmptyOk(var) == env[var] # "unset"

RequireEnv(var) == env[var] = "set"

\* index of the first variable of the list that _require_env rejects, 0 if none
RECURSIVE FirstMissing(_, _)
FirstMissing(varlist, i) ==
    IF i > Len(varlist) THEN 0
    ELSE IF ~RequireEnv(varlist[i]) THEN i
    ELSE FirstMissing(varlist, i + 1)

\* the variable whose absence makes _build_servers raise, "none" if it returns
BuildFailure ==
    IF FirstMissing(STRIPE_VARS, 1) # 0 THEN STRIPE_VARS[FirstMissing(STRIPE_VARS, 1)]
    ELSE IF FirstMissing(ZENDESK_VARS, 1) # 0 THEN ZENDESK_VARS[FirstMissing(ZENDESK_VARS, 1)]
    ELSE "none"

\* the list _build_servers returns
BuiltServers == <<"couchdb", "stripe", "zendesk">>

NoCall == [tool |-> "none"]

NoRequest == [verb |-> "none"]

NoResult == [kind |-> "none"]

\* the tool server before a call arrives
GatewayIdle ==
    /\ phase = "idle"
    /\ call = NoCall
    /\ request = NoRequest
    /\ toolResult = NoResult

\* run(prompt, json_only) is entered with some environment
RunEntered ==
    /\ pc = "build"
    /\ servers = <<>>
    /\ connections = <<>>
    /\ stack = <<>>
    /\ openCalls = <<>>
    /\ opened = <<>>
    /\ closeCalls = <<>>
    /\ exc = NoExc
    /\ closeErr = NoExc
    /\ closeFailed = {}
    /\ raised = NoExc
    /\ runner = "idle"
    /\ turn = 0
    /\ final_output = "unset"
    /\ printed = <<>>
    /\ ret = "running"

Init ==
    /\ env \in [EnvVars -> {"unset", "empty", "set"}]
    /\ json_only \in BOOLEAN
    /\ RunEntered
    /\ GatewayIdle

\* run, line 138: _build_servers() builds the three servers in order; a missing
\* variable raises RuntimeError out of run before _connect_servers is called.
BuildServers ==
    /\ UNCHANGED gwVars
    /\ pc = "build"
    /\ IF BuildFailure # "none"
       THEN /\ raised' = Exc("RuntimeError", BuildFailure)
            /\ ret' = "raised"
            /\ pc' = "done"
            /\ UNCHANGED servers
       ELSE /\ servers' = BuiltServers
            /\ pc' = "connect"
            /\ UNCHANGED <<raised, ret>>
    /\ UNCHANGED <<env, json_only, connections, stack, openCalls, opened,
                   closeCalls, exc, closeErr, closeFailed, runner, turn,
                   final_output, printed>>

\* which open outcomes `except Exception` of _connect_servers catches
CaughtByConnect(outcome) == outcome = "fail"

\* where the loop goes when an open raised an Exception: the except block
OnOpenFailureSkip == "connect"

OnOpenFailure == "rollback"

\* _connect_servers, line 130: await stack.enter_async_context(server).  The
\* open returns, raises an Exception, or the task is cancelled while it waits
\* (CancelledError is a BaseException, which `except Exception` lets through).
ConnectOpen ==
    /\ UNCHANGED gwVars
    /\ pc = "connect"
    /\ Len(openCalls) < Len(servers)
    /\ LET server == servers[Len(openCalls) + 1] IN
       /\ openCalls' = Append(openCalls, server)
       /\ \E outcome \in {"ok", "fail", "cancel"} :
            IF outcome = "ok"
            THEN /\ stack' = Append(stack, server)
                 /\ connections' = Append(connections, server)
                 /\ opened' = Append(opened, server)
                 /\ UNCHANGED <<pc, exc, raised, ret>>
            ELSE /\ UNCHANGED <<stack, connections, opened>>
                 /\ IF CaughtByConnect(outcome)
                    THEN /\ exc' = Exc("OpenError", server)
                         /\ pc' = OnOpenFailure
                         /\ UNCHANGED <<raised, ret>>
                    ELSE /\ raised' = Exc(IF outcome = "fail" THEN "OpenError"
                                          ELSE "CancelledError", server)
                         /\ pc' = "done"
                         /\ ret' = "raised"
                         /\ UNCHANGED exc
    /\ UNCHANGED <<env, json_only, servers, closeCalls, closeErr, closeFailed,
                   runner, turn, final_output, printed>>

\* _connect_servers, line 134: the loop is over, return connections, stack
ConnectReturn ==
    /\ UNCHANGED gwVars
    /\ pc = "connect"
    /\ Len(openCalls) = Len(servers)
    /\ pc' = "agent"
    /\ UNCHANGED <<env, json_only, servers, connections, stack, openCalls,
                   opened, closeCalls, exc, closeErr, closeFailed, raised,
                   runner, turn, final_output, printed, ret>>

\* AsyncExitStack.aclose: which callback runs next (LIFO: the last pushed)
ExitIndexFifo(s) == 1

ExitIndex(s) == Len(s)

\* AsyncExitStack.aclose: the callbacks still to run after callback i was
\* popped; a callback that raises does not stop the loop
Remaining(s, i) ==
    [j \in 1..(Len(s) - 1) |-> IF j < i THEN s[j] ELSE s[j + 1]]

\* one iteration of the loop of stack.aclose(): pop a callback, await the
\* server's __aexit__.  It returns, raises, or the task is cancelled while it
\* waits; the loop catches whatever it raised (a bare except) and keeps it to
\* be raised at the end, the latest replacing an earlier one.
ExitStackStep ==
    /\ stack # <<>>
    /\ LET i == ExitIndex(stack)
           server == stack[i]
       IN  /\ closeCalls' = Append(closeCalls, server)
           /\ \E outcome \in {"ok", "fail", "cancel"} :
                /\ stack' = Remaining(stack, i)
                /\ IF outcome = "ok"
                   THEN UNCHANGED <<closeErr, closeFailed>>
                   ELSE /\ closeErr' = Exc(IF outcome = "fail" THEN "CloseError"
                                           ELSE "CancelledError", server)
                        /\ closeFailed' = closeFailed \cup {server}

\* _connect_servers, line 132: await stack.aclose() in the except block
RollbackClose ==
    /\ UNCHANGED gwVars
    /\ pc = "rollback"
    /\ ExitStackStep
    /\ UNCHANGED <<env, json_only, pc, servers, connections, openCalls, opened,
                   exc, raised, runner, turn, final_output, printed, ret>>

\* the exception that leaves a block whose cleanup is stack.aclose(): the
\* one aclose raised if it raised, else the one that was in flight
Leaving(inflight, closing) == IF closing # NoExc THEN closing ELSE inflight

\* _connect_servers, lines 132-133: aclose is over; `raise` re-raises the open
\* failure unless aclose itself raised.  run has no handler: it leaves run.
RollbackRaise ==
    /\ UNCHANGED gwVars
    /\ pc = "rollback"
    /\ stack = <<>>
    /\ raised' = Leaving(exc, closeErr)
    /\ ret' = "raised"
    /\ pc' = "done"
    /\ UNCHANGED <<env, json_only, servers, connections, stack, openCalls,
                   opened, closeCalls, exc, closeErr, closeFailed, runner, turn,
                   final_output, printed>>

\* run, lines 140-150: Agent(...) is built from the connections and Runner.run
\* is called inside the try.  The constructors run with the stack open and no
\* handler in scope: an exception raised there leaves run at once.
BuildAgent ==
    /\ UNCHANGED gwVars
    /\ pc = "agent"
    /\ \E outcome \in {"ok", "fail"} :
         IF outcome = "ok"
         THEN /\ runner' = "started"
              /\ pc' = "running"
              /\ UNCHANGED <<raised, ret>>
         ELSE /\ raised' = Exc("AgentError", "agent")
              /\ ret' = "raised"
              /\ pc' = "done"
              /\ UNCHANGED runner
    /\ UNCHANGED <<env, json_only, servers, connections, stack, openCalls,
                   opened, closeCalls, exc, closeErr, closeFailed, turn,
                   final_output, printed>>

\* run, lines 149-152: where control goes when Runner.run ends: try/finally
\* runs stack.aclose() however it ended
OnRunnerEndNoFinally(outcome) ==
    IF outcome \in {"final", "final_none"} THEN "closing" ELSE "done"

OnRunnerEnd(outcome) == "closing"

\* run, line 150: one turn of Runner.run(agent, prompt, max_turns=8).  The
\* turn asks for tool calls, gives the final output, raises, or the task is
\* cancelled while it waits.
RunnerTurn ==
    /\ UNCHANGED gwVars
    /\ pc = "running"
    /\ turn < MaxTurns
    /\ turn' = turn + 1
    /\ \E outcome \in {"tool_calls", "final", "final_none", "error", "cancel"} :
         /\ final_output' = CASE outcome = "final" -> "text"
                              [] outcome = "final_none" -> "none"
                              [] OTHER -> final_output
         /\ runner' = CASE outcome \in {"final", "final_none"} -> "ok"
                        [] outcome = "error" -> "error"
                        [] outcome = "cancel" -> "cancelled"
                        [] OTHER -> runner
         /\ exc' = CASE outcome = "error" -> Exc("RunnerError", "runner")
                     [] outcome = "cancel" -> Exc("CancelledError", "runner")
                     [] OTHER -> exc
         /\ IF outcome = "tool_calls"
            THEN UNCHANGED <<pc, raised, ret>>
            ELSE /\ pc' = OnRunnerEnd(outcome)
                 /\ IF OnRunnerEnd(outcome) = "done"
                    THEN /\ raised' = exc'
                         /\ ret' = "raised"
                    ELSE UNCHANGED <<raised, ret>>
    /\ UNCHANGED <<env, json_only, servers, connections, stack, openCalls,
                   opened, closeCalls, closeErr, closeFailed, printed>>

\* run, line 150: the turn after the last allowed one raises MaxTurnsExceeded
RunnerMaxTurns ==
    /\ UNCHANGED gwVars
    /\ pc = "running"
    /\ turn = MaxTurns
    /\ runner' = "maxturns"
    /\ exc' = Exc("MaxTurnsExceeded", "runner")
    /\ pc' = OnRunnerEnd("maxturns")
    /\ IF OnRunnerEnd("maxturns") = "done"
       THEN /\ raised' = exc'
            /\ ret' = "raised"
       ELSE UNCHANGED <<raised, ret>>
    /\ UNCHANGED <<env, json_only, servers, connections, stack, openCalls,
                   opened, closeCalls, closeErr, closeFailed, turn,
                   final_output, printed>>

\* run, line 152: await stack.aclose() in the finally block
TeardownClose ==
    /\ UNCHANGED gwVars
    /\ pc = "closing"
    /\ ExitStackStep
    /\ UNCHANGED <<env, json_only, pc, servers, connections, openCalls, opened,
                   exc, raised, runner, turn, final_output, printed, ret>>

\* run, lines 151-154: the finally block is over.  With no handler in run the
\* exception of aclose, or else the one of Runner.run, leaves run; with none,
\* run goes on to print.
TeardownEnd ==
    /\ UNCHANGED gwVars
    /\ pc = "closing"
    /\ stack = <<>>
    /\ IF Leaving(exc, closeErr) # NoExc
       THEN /\ raised' = Leaving(exc, closeErr)
            /\ ret' = "raised"
            /\ pc' = "done"
       ELSE /\ pc' = "print"
            /\ UNCHANGED <<raised, ret>>
    /\ UNCHANGED <<env, json_only, servers, connections, stack, openCalls,
                   opened, closeCalls, exc, closeErr, closeFailed, runner, turn,
                   final_output, printed>>

\* run, line 154: out = result.final_output or "(no output)"
Out == IF final_output = "text" THEN "text" ELSE "(no output)"

\* run, lines 154-158: print the output, with a header unless --json
PrintOutput ==
    /\ UNCHANGED gwVars
    /\ pc = "print"
    /\ printed' = IF json_only THEN <<Out>> ELSE <<"--- Agent Output ---", Out>>
    /\ ret' = "returned"
    /\ pc' = "done"
    /\ UNCHANGED <<env, json_only, servers, connections, stack, openCalls,
                   opened, closeCalls, exc, closeErr, closeFailed, raised,
                   runner, turn, final_output>>

Next ==
    \/ BuildServers
    \/ ConnectOpen
    \/ ConnectReturn
    \/ RollbackClose
    \/ RollbackRaise
    \/ BuildAgent
    \/ RunnerTurn
    \/ RunnerMaxTurns
    \/ TeardownClose
    \/ TeardownEnd
    \/ PrintOutput

Spec == Init /\ [][Next]_vars

----------------------------------------------------------------------------
(* _connect_servers on its own, for any ordered list of providers *)

\* longest provider list handed to _connect_servers
MaxServers == 4

ProviderPool == {"couchdb", "stripe", "zendesk", "p4", "p5"}

ProviderLists ==
    {s \in UNION {[1..n -> ProviderPool] : n \in 0..MaxServers} :
        \A i, j \in DOMAIN s : i # j => s[i] # s[j]}

\* _connect_servers(servers) is entered: lines 125-127
ConnectInit ==
    /\ env = [v \in EnvVars |-> "set"]
    /\ json_only = FALSE
    /\ servers \in ProviderLists
    /\ pc = "connect"
    /\ connections = <<>>
    /\ stack = <<>>
    /\ openCalls = <<>>
    /\ opened = <<>>
    /\ closeCalls = <<>>
    /\ exc = NoExc
    /\ closeErr = NoExc
    /\ closeFailed = {}
    /\ raised = NoExc
    /\ runner = "idle"
    /\ turn = 0
    /\ final_output = "unset"
    /\ printed = <<>>
    /\ ret = "running"
    /\ GatewayIdle

ConnectNext ==
    \/ ConnectOpen
    \/ ConnectReturn
    \/ RollbackClose
    \/ RollbackRaise

ConnectSpec == ConnectInit /\ [][ConnectNext]_vars

----------------------------------------------------------------------------
(* Tool gateway: couchdb_mcp_server.py *)

\* most characters the db and doc_id arguments of one call hold together
MaxArgChars == 3

\* characters of the arguments: one unreserved letter, the dot, the
\* path-reserved characters and the escape character itself
Chars == {"a", ".", "/", "?", "#", " ", "%"}

Strings(n) == UNION {[1..k -> Chars] : k \in 0..n}

\* urllib.parse.quote: the characters never escaped (letters, digits, _.-~)
AlwaysSafe == {"a", "."}

\* urllib.parse.quote: the two upper-case hex digits of a character's byte
HexOf(c) ==
    CASE c = "/" -> <<"2", "F">>
      [] c = "?" -> <<"3", "F">>
      [] c = "#" -> <<"2", "3">>
      [] c = " " -> <<"2", "0">>
      [] c = "%" -> <<"2", "5">>

RECURSIVE QuoteWith(_, _)
QuoteWith(s, safe) ==
    IF s = <<>> THEN <<>>
    ELSE (IF Head(s) \in AlwaysSafe \cup safe THEN <<Head(s)>>
          ELSE <<"%">> \o HexOf(Head(s))) \o QuoteWith(Tail(s), safe)

\* quote(s) with the default safe='/'
QuoteDefaultSafe(s) == QuoteWith(s, {"/"})

\* quote(s, safe='')
Quote(s) == QuoteWith(s, {})

\* "/_all_docs", "/_find" and "/_all_dbs" as characters
AllDocs == <<"/", "_", "a", "l", "l", "_", "d", "o", "c", "s">>

Find == <<"/", "_", "f", "i", "n", "d">>

AllDbs == <<"/", "_", "a", "l", "l", "_", "d", "b", "s">>

BulkDocs == <<"/", "_", "b", "u", "l", "k", "_", "d", "o", "c", "s">>

\* _get: session.get(COUCHDB_URL + path, params=params or {})
Get(path, params) == [verb |-> "GET", base |-> "COUCHDB_URL", path |-> path,
                      params |-> params, body |-> {}]

\* _post_json: session.post(COUCHDB_URL + path, json=payload)
PostJson(path, payload) == [verb |-> "POST", base |-> "COUCHDB_URL", path |-> path,
                            params |-> {}, body |-> payload]

\* what the server may answer; 0 stands for a transport failure (no answer)
Responses == {200, 404, 500, 0}

\* _get / _post_json, lines 25-27 and 32-34: a transport failure raises out of
\* session.get, r.raise_for_status() raises on a non-2xx status, else the
\* decoded JSON is returned.  No tool function has a handler: what the helper
\* raises leaves the tool function.
Outcome(response) ==
    IF response = 0 THEN [kind |-> "raised", exc |-> "ClientConnectionError", status |-> 0]
    ELSE IF response >= 200 /\ response < 300
         THEN [kind |-> "returned", payload |-> "json", status |-> response]
         ELSE [kind |-> "raised", exc |-> "ClientResponseError", status |-> response]

\* list_databases: _get(s, "/_all_dbs")
ListDatabases ==
    /\ phase = "idle"
    /\ \E response \in Responses :
         /\ call' = [tool |-> "list_databases"]
         /\ request' = Get(AllDbs, {})
         /\ toolResult' = Outcome(response)
    /\ phase' = "replied"
    /\ UNCHANGED orchVars

\* db_info: the path f"/{quote(db, safe='')}"
DbInfoPath(db) == <<"/">> \o Quote(db)

DbInfo ==
    /\ phase = "idle"
    /\ \E db \in Strings(MaxArgChars), response \in Responses :
         /\ call' = [tool |-> "db_info", db |-> db]
         /\ request' = Get(DbInfoPath(db), {})
         /\ toolResult' = Outcome(response)
    /\ phase' = "replied"
    /\ UNCHANGED orchVars

\* get_document: the path f"/{quote(db, safe='')}/{quote(doc_id, safe='')}"
GetDocumentPath(db, doc_id) == <<"/">> \o Quote(db) \o <<"/">> \o Quote(doc_id)

\* get_document, lines 55-59: a flag is a parameter only when it is true
GetDocumentParams(include_attachments, include_revs) ==
    (IF include_attachments THEN {<<"attachments", "true">>} ELSE {})
    \cup (IF include_revs THEN {<<"revs", "true">>} ELSE {})

GetDocument ==
    /\ phase = "idle"
    /\ \E db \in Strings(MaxArgChars),
          include_attachments \in BOOLEAN, include_revs \in BOOLEAN,
          response \in Responses :
       \E doc_id \in Strings(MaxArgChars - Len(db)) :
         /\ call' = [tool |-> "get_document", db |-> db, doc_id |-> doc_id,
                     include_attachments |-> include_attachments,
                     include_revs |-> include_revs]
         /\ request' = Get(GetDocumentPath(db, doc_id),
                          GetDocumentParams(include_attachments, include_revs))
         /\ toolResult' = Outcome(response)
    /\ phase' = "replied"
    /\ UNCHANGED orchVars

\* json.dumps of a string key
JsonDumps(key) == <<"\"", key, "\"">>

\* list_documents: the path f"/{quote(db, safe='')}/_all_docs"
ListDocumentsPath(db) == <<"/">> \o Quote(db) \o AllDocs

\* list_documents, lines 73-77
ListDocumentsParams(include_docs, limit, skip, startkey, endkey) ==
    {<<"limit", limit>>, <<"skip", skip>>,
     <<"include_docs", IF include_docs THEN "true" ELSE "false">>}
    \cup (IF startkey # "None" THEN {<<"startkey", JsonDumps(startkey)>>} ELSE {})
    \cup (IF endkey # "None" THEN {<<"endkey", JsonDumps(endkey)>>} ELSE {})

ListDocuments ==
    /\ phase = "idle"
    /\ \E db \in Strings(MaxArgChars), include_docs \in BOOLEAN,
          limit \in {100}, skip \in {0},
          startkey \in {"None", "k1"}, endkey \in {"None", "k2"},
          response \in Responses :
         /\ call' = [tool |-> "list_documents", db |-> db,
                     include_docs |-> include_docs, limit |-> limit,
                     skip |-> skip, startkey |-> startkey, endkey |-> endkey]
         /\ request' = Get(ListDocumentsPath(db),
                          ListDocumentsParams(include_docs, limit, skip, startkey, endkey))
         /\ toolResult' = Outcome(response)
    /\ phase' = "replied"
    /\ UNCHANGED orchVars

\* mango_find: the path f"/{quote(db, safe='')}/_find"
MangoFindPathBulk(db) == <<"/">> \o Quote(db) \o BulkDocs

MangoFindPath(db) == <<"/">> \o Quote(db) \o Find

\* mango_find, lines 92-98: optional fields are in the body only when given
MangoFindBody(selector, fields, limit, sort, skip, use_index) ==
    {<<"selector", selector>>, <<"limit", limit>>, <<"skip", skip>>}
    \cup (IF fields # "None" THEN {<<"fields", fields>>} ELSE {})
    \cup (IF sort # "None" THEN {<<"sort", sort>>} ELSE {})
    \cup (IF use_index # "None" THEN {<<"use_index", use_index>>} ELSE {})

MangoFind ==
    /\ phase = "idle"
    /\ \E db \in Strings(MaxArgChars), selector \in {"sel"},
          fields \in {"None", "f"}, limit \in {100}, sort \in {"None", "s"},
          skip \in {0}, use_index \in {"None", "ix"},
          response \in Responses :
         /\ call' = [tool |-> "mango_find", db |-> db, selector |-> selector,
                     fields |-> fields, limit |-> limit, sort |-> sort,
                     skip |-> skip, use_index |-> use_index]
         /\ request' = PostJson(MangoFindPath(db),
                               MangoFindBody(selector, fields, limit, sort, skip, use_index))
         /\ toolResult' = Outcome(response)
    /\ phase' = "replied"
    /\ UNCHANGED orchVars

\* app.run(): the reply is sent and the server waits for the next call; no
\* state is kept from one call to the next
ServeNext ==
    /\ phase = "replied"
    /\ phase' = "idle"
    /\ call' = NoCall
    /\ request' = NoRequest
    /\ toolResult' = NoResult
    /\ UNCHANGED orchVars

GatewayInit ==
    /\ env = [v \in EnvVars |-> "set"]
    /\ json_only = FALSE
    /\ RunEntered
    /\ GatewayIdle

GatewayNext ==
    \/ ListDatabases
    \/ DbInfo
    \/ GetDocument
    \/ ListDocuments
    \/ MangoFind
    \/ ServeNext

GatewaySpec == GatewayInit /\ [][GatewayNext]_vars

----------------------------------------------------------------------------
(* Properties *)

RECURSIVE Reverse(_)
Reverse(s) == IF s = <<>> THEN <<>> ELSE Append(Reverse(Tail(s)), Head(s))

Range(s) == {s[i] : i \in DOMAIN s}

Occurrences(s, x) == Cardinality({i \in DOMAIN s : s[i] = x})

\* C1: when the open of provider k of the list raises, no later provider is
\* opened, the closes made so far are those of providers k-1, k-2, ... in that
\* order, each once, and the failure has left _connect_servers only after
\* all of 1..k-1 were closed.
C1_TransactionalAcquisition ==
    exc.kind = "OpenError" =>
        LET k == Len(openCalls) IN
        /\ openCalls = SubSeq(servers, 1, k)
        /\ exc.about = servers[k]
        /\ opened = SubSeq(servers, 1, k - 1)
        /\ Len(closeCalls) <= k - 1
        /\ closeCalls = SubSeq(Reverse(opened), 1, Len(closeCalls))
        /\ pc \in {"rollback", "done"}
        /\ (pc = "rollback") = (ret = "running")
        /\ ret = "raised" => closeCalls = Reverse(SubSeq(servers, 1, k - 1))

C1_Witness ==
    /\ ret = "raised"
    /\ exc.kind = "OpenError"
    /\ Len(servers) = 4
    /\ Len(openCalls) = 3
    /\ closeCalls = <<servers[2], servers[1]>>

\* C2: when run has returned or raised, every provider that was opened has
\* been closed exactly once, and nothing else was closed.
C2_NoLeakNoDoubleClose ==
    pc = "done" =>
        /\ Len(closeCalls) = Len(opened)
        /\ \A p \in Range(opened) : Occurrences(closeCalls, p) = 1

\* C3: once Runner.run was started, run ends only after every opened handle
\* was closed, in reverse order of opening, whatever the runtime did and
\* whichever closes failed.
C3_TeardownComplete ==
    (runner # "idle" /\ pc \in {"print", "done"}) =>
        /\ stack = <<>>
        /\ opened = <<"couchdb", "stripe", "zendesk">>
        /\ closeCalls = Reverse(opened)

C3_Witness ==
    /\ pc = "done"
    /\ runner = "cancelled"
    /\ closeFailed = {"zendesk", "stripe"}
    /\ closeCalls = <<"zendesk", "stripe", "couchdb">>

\* C4: a close that fails never changes what run gives its caller: after a
\* successful Runner.run the output is still printed and run returns, after
\* a failed one (or a failed open) the caller gets that original failure.
C4_TeardownNeverMasks ==
    (pc = "done" /\ closeFailed # {}) =>
        IF exc # NoExc THEN ret = "raised" /\ raised = exc
        ELSE ret = "returned" /\ printed # <<>>

\* C5 as stated: with STRIPE_API_KEY missing, couchdb was opened and then
\* closed, zendesk was never opened, and the failure reported names stripe.
C5_CouchdbOpenedThenClosed ==
    (pc = "done" /\ env["STRIPE_API_KEY"] = "unset") =>
        /\ opened = <<"couchdb">>
        /\ closeCalls = <<"couchdb">>
        /\ "zendesk" \notin Range(openCalls)
        /\ ret = "raised"
        /\ ProviderOf(raised.about) = "stripe"

\* C5 amended: with STRIPE_API_KEY missing (unset or empty) no provider is
\* ever opened or closed and the agent runtime never starts; run raises the
\* RuntimeError of _require_env, which names STRIPE_API_KEY and Stripe.
C5_NothingOpened ==
    env["STRIPE_API_KEY"] # "set" =>
        /\ openCalls = <<>>
        /\ closeCalls = <<>>
        /\ runner = "idle"
        /\ pc \in {"build", "done"}
        /\ pc = "done" =>
             /\ ret = "raised"
             /\ raised = Exc("RuntimeError", "STRIPE_API_KEY")
             /\ ProviderOf(raised.about) = "stripe"

C5_Witness ==
    /\ pc = "done"
    /\ env = [v \in EnvVars |-> IF v = "STRIPE_API_KEY" THEN "unset" ELSE "set"]
    /\ raised.kind = "RuntimeError"

\* C6: the agent runtime is started only with couchdb, stripe and zendesk all
\* opened, all three stay open while it runs, and after a failed open it is
\* never started.
C6_NoPartialRun ==
    /\ runner # "idle" => opened = <<"couchdb", "stripe", "zendesk">>
    /\ pc = "running" =>
         /\ Range(stack) = {"couchdb", "stripe", "zendesk"}
         /\ closeCalls = <<>>
    /\ Len(opened) < Len(openCalls) => runner = "idle" /\ pc # "running"

C6_Witness ==
    /\ pc = "running"
    /\ turn = 3
    /\ opened = <<"couchdb", "stripe", "zendesk">>

\* C7: when Runner.run raised an error or ran out of turns, run returns a
\* result to its caller and raises nothing (stated for the sessions whose
\* closes all succeed, so that no close failure is involved).
C7_RunnerFailuresAreResults ==
    (pc = "done" /\ runner \in {"error", "maxturns"} /\ closeFailed = {}) =>
        ret = "returned"

RECURSIVE Unquote(_)
Unquote(s) ==
    IF s = <<>> THEN <<>>
    ELSE IF Head(s) = "%" /\ Len(s) >= 3
              /\ \E c \in Chars \ AlwaysSafe : HexOf(c) = <<s[2], s[3]>>
         THEN <<CHOOSE c \in Chars \ AlwaysSafe : HexOf(c) = <<s[2], s[3]>> >>
              \o Unquote(SubSeq(s, 4, Len(s)))
         ELSE <<Head(s)>> \o Unquote(Tail(s))

SlashesAt(path) == {i \in DOMAIN path : path[i] = "/"}

\* the path is "/" and one segment that decodes to db
OneSegment(path, db) ==
    /\ SlashesAt(path) = {1}
    /\ Unquote(Tail(path)) = db

\* the path is "/", a segment that decodes to db, "/", and a last segment
LastSegment(path) ==
    LET m == CHOOSE i \in SlashesAt(path) : \A j \in SlashesAt(path) : j <= i
    IN  SubSeq(path, m + 1, Len(path))

TwoSegments(path, db) ==
    /\ Cardinality(SlashesAt(path)) = 2
    /\ 1 \in SlashesAt(path)
    /\ LET m == CHOOSE i \in SlashesAt(path) : i # 1
       IN  Unquote(SubSeq(path, 2, m - 1)) = db

\* C8: a non-2xx answer or a transport failure makes the tool call yield an
\* Err value of kind gateway_error that keeps the status; the tool function
\* does not raise.
C8_ToolErrorsAreValues ==
    (phase = "replied" /\ ~(toolResult.status >= 200 /\ toolResult.status < 300)) =>
        /\ toolResult.kind = "err"
        /\ toolResult.errkind = "gateway_error"

\* C9: every request issued is a GET, or a POST of mango_find to
\* /{escaped db}/_find; every call served is one of the five tools.
C9_ReadOnly ==
    phase = "replied" =>
        /\ call.tool \in {"list_databases", "db_info", "get_document",
                          "list_documents", "mango_find"}
        /\ request.verb \in {"GET", "POST"}
        /\ request.verb = "POST" =>
             /\ call.tool = "mango_find"
             /\ TwoSegments(request.path, call.db)
             /\ LastSegment(request.path) = Tail(Find)

C9_Witness ==
    /\ phase = "replied"
    /\ request.verb = "POST"
    /\ call.db = <<"/", "?", "#">>

\* C10: in the path of db_info, get_document, list_documents and mango_find
\* the characters '/', '?', '#' and space of the arguments appear only
\* percent-escaped: the path holds no '?', '#' or space, has one segment for
\* db_info and two for the others, the first decodes to db and the second is
\* the escaped doc_id, _all_docs or _find.
C10_PathEscaping ==
    (phase = "replied" /\ call.tool # "list_databases") =>
        /\ \A i \in DOMAIN request.path : request.path[i] \notin {"?", "#", " "}
        /\ call.tool = "db_info" => OneSegment(request.path, call.db)
        /\ call.tool # "db_info" => TwoSegments(request.path, call.db)
        /\ call.tool = "get_document" =>
             Unquote(LastSegment(request.path)) = call.doc_id
        /\ call.tool = "list_documents" => LastSegment(request.path) = Tail(AllDocs)
        /\ call.tool = "mango_find" => LastSegment(request.path) = Tail(Find)

C10_Witness ==
    /\ phase = "replied"
    /\ call.tool = "get_document"
    /\ call.db = <<"/", "?">>
    /\ call.doc_id = <<"#">>
    /\ request.path = <<"/", "%", "2", "F", "%", "3", "F", "/", "%", "2", "3">>

====
